---- MODULE Spec2Model ----
(***************************************************************************)
(* Model of src/server.js (note-outline-api), lines 1-214: the handler of  *)
(* GET/POST /note_top_outline and the page extractor extractHeadings.      *)
(* Lines 216-357 of the file are an earlier copy of the same server (no    *)
(* GET route, no timeouts, no try/catch in extractHeadings); the model     *)
(* follows the first copy.                                                 *)
(* Strings are sequences of one-character strings, so that trim, slice,    *)
(* startsWith, includes and replace(/\s+/g," ") are computed as the code   *)
(* computes them.  JavaScript values that may be absent or of another type *)
(* (a header, a query parameter, a JSON field) are tagged records.         *)
(***************************************************************************)
EXTENDS Integers, Sequences, FiniteSets

(* ------------------------------ bounds --------------------------------- *)
\* longest organic_results array the search API returns in the model
MaxOrganic == 3
\* how far beyond a cap (200 chars, 20/40 items) the modelled pages reach
Over == 1
\* milliseconds an answered outbound call takes in the model
Latency == 1

(* -------------------------- program constants -------------------------- *)
DefaultNum == 10
MinNum == 1
MaxNum == 10
BearerLen == 7
SerpTimeoutMs == 20000
PageTimeoutMs == 20000
SleepMs == 500
DetailCap == 800
TextCap == 200
H2Cap == 20
H3Cap == 40

(* ------------------------------ strings -------------------------------- *)
\* the characters /\s/ and String.prototype.trim treat as white space
\* (the members of that class that occur in the model)
WS == {" ", "\t", "\n"}

\* index of the first (last) character of s at or after (before) i that is
\* not white space, 0 when there is none
RECURSIVE FirstNonWS(_, _)
FirstNonWS(s, i) ==
  IF i > Len(s) THEN 0 ELSE IF s[i] \notin WS THEN i ELSE FirstNonWS(s, i + 1)
RECURSIVE LastNonWS(_, _)
LastNonWS(s, i) ==
  IF i < 1 THEN 0 ELSE IF s[i] \notin WS THEN i ELSE LastNonWS(s, i - 1)

\* s.trim()
Trim(s) ==
  LET a == FirstNonWS(s, 1)
  IN  IF a = 0 THEN <<>> ELSE SubSeq(s, a, LastNonWS(s, Len(s)))

\* s.replace(/\s+/g, " ")
CollapseWS(s) ==
  LET marked == [i \in 1..Len(s) |->
                   IF s[i] \in WS
                   THEN (IF i > 1 /\ s[i-1] \in WS THEN "drop" ELSE " ")
                   ELSE s[i]]
  IN  SelectSeq(marked, LAMBDA c : c # "drop")

\* s.slice(0, n) for n >= 0, on a string or an array
SliceTo(s, n) == SubSeq(s, 1, IF n < Len(s) THEN n ELSE Len(s))

\* s.slice(n) for n >= 0
SliceFrom(s, n) == SubSeq(s, n + 1, Len(s))

\* s.startsWith(p)
StartsWith(s, p) == Len(s) >= Len(p) /\ SubSeq(s, 1, Len(p)) = p

\* s.includes(sub)
Includes(s, sub) ==
  \E i \in 0..(Len(s) - Len(sub)) : SubSeq(s, i + 1, i + Len(sub)) = sub

\* n copies of the character c
Rep(c, n) == [i \in 1..n |-> c]

(* --------------------------- JavaScript values ------------------------- *)
\* A value is its type t with a number n + h/2 (h is 0, or 1 for a number
\* that ends in .5) or a string s.
JSUndef   == [t |-> "undefined", n |-> 0, h |-> 0, s |-> <<>>]
JSNull    == [t |-> "null", n |-> 0, h |-> 0, s |-> <<>>]
JSNaN     == [t |-> "NaN", n |-> 0, h |-> 0, s |-> <<>>]
JSNum(k)  == [t |-> "number", n |-> k, h |-> 0, s |-> <<>>]
JSHalf(k) == [t |-> "number", n |-> k, h |-> 1, s |-> <<>>]
JSStr(x)  == [t |-> "string", n |-> 0, h |-> 0, s |-> x]

\* the truthiness `v || d` tests
Truthy(v) ==
  CASE v.t = "number" -> v.n # 0 \/ v.h # 0
    [] v.t = "string" -> v.s # <<>>
    [] OTHER -> FALSE

\* v || d
OrElse(v, d) == IF Truthy(v) THEN v ELSE d

Digits == <<"0", "1", "2", "3", "4", "5", "6", "7", "8", "9">>
DigitVal(c) == (CHOOSE i \in 1..10 : Digits[i] = c) - 1
IsDigit(c) == \E i \in 1..10 : Digits[i] = c
AllDigits(x) == x # <<>> /\ \A i \in 1..Len(x) : IsDigit(x[i])

RECURSIVE DecimalValue(_)
DecimalValue(ds) ==
  IF ds = <<>> THEN 0
  ELSE 10 * DecimalValue(SubSeq(ds, 1, Len(ds) - 1)) + DigitVal(ds[Len(ds)])

\* -v
Negate(v) == IF v.h = 1 THEN JSHalf(0 - v.n - 1) ELSE JSNum(0 - v.n)

\* Number(v) for the values of the model: a number is itself; a string is
\* trimmed and read as an optionally signed decimal with digits, or digits and
\* ".5" ("" reads as 0); anything else that occurs is NaN
ToNumber(v) ==
  CASE v.t = "number" -> v
    [] v.t = "string" ->
         LET x == Trim(v.s)
             signed == x # <<>> /\ x[1] \in {"-", "+"}
             body == IF signed THEN Tail(x) ELSE x
             half == Len(body) > 2 /\ SubSeq(body, Len(body) - 1, Len(body)) = <<".", "5">>
             int == IF half THEN SubSeq(body, 1, Len(body) - 2) ELSE body
             mag == IF half THEN JSHalf(DecimalValue(int)) ELSE JSNum(DecimalValue(int))
         IN  IF x = <<>> THEN JSNum(0)
             ELSE IF AllDigits(int)
                  THEN (IF x[1] = "-" THEN Negate(mag) ELSE mag)
                  ELSE JSNaN
    [] v.t = "null" -> JSNum(0)
    [] OTHER -> JSNaN

RECURSIVE NatToString(_)
NatToString(k) ==
  IF k < 10 THEN <<Digits[k + 1]>>
  ELSE NatToString(k \div 10) \o <<Digits[(k % 10) + 1]>>

\* String(v) for a string or a number
JSString(v) ==
  CASE v.t = "string" -> v.s
    [] v.t = "number" ->
         LET neg == v.n < 0
             mag == IF neg THEN Negate(v) ELSE v
         IN  (IF neg THEN <<"-">> ELSE <<>>) \o NatToString(mag.n)
               \o (IF mag.h = 1 THEN <<".", "5">> ELSE <<>>)
    [] OTHER -> <<>>

\* ToIntegerOrInfinity(v), as slice applies it to its arguments
ToInteger(v) == IF v.n < 0 THEN v.n + v.h ELSE v.n

(* ------------------------- configuration, request ---------------------- *)
Tok == <<"k">>
Bad == <<"k", "x">>
Bearer_ == <<"B", "e", "a", "r", "e", "r", " ">>
Key == <<"s">>

\* process.env.API_TOKEN || "" and process.env.SERPAPI_KEY || ""
Tokens == {<<>>, Tok}
Keys == {<<>>, Key}

\* values of the Authorization header
AuthHeaders ==
  { JSUndef,
    JSStr(Bearer_ \o Tok),
    JSStr(Bearer_ \o <<" ">> \o Tok \o <<" ">>),
    JSStr(Bearer_ \o Bad),
    JSStr(<<"b", "e", "a", "r", "e", "r", " ">> \o Tok),
    JSStr(Tok) }

\* values of req.query.q / req.body.query
Queries ==
  { JSUndef, JSStr(<<>>), JSStr(<<" ">>), JSStr(<<"\t", " ">>),
    JSStr(<<"a">>), JSStr(<<" ", "a", " ">>) }

\* values of req.query.num (a string when present)
GetNums ==
  { JSUndef, JSStr(<<>>), JSStr(<<"0">>), JSStr(<<"-", "1">>), JSStr(<<"2">>),
    JSStr(<<"1", "1">>), JSStr(<<"a">>), JSStr(<<"1", ".", "5">>) }

\* values of req.body.num (any JSON value)
PostNums ==
  { JSUndef, JSStr(<<"2">>), JSHalf(2) } \cup { JSNum(k) : k \in {-1, 0, 1, 2, 3, 10, 11} }

Requests ==
  [method : {"GET"}, authorization : AuthHeaders, q : Queries, num : GetNums]
  \cup
  [method : {"POST"}, authorization : AuthHeaders, q : Queries, num : PostNums]

(* ------------------------------- state --------------------------------- *)
VARIABLES
  API_TOKEN,    \* line 11
  SERPAPI_KEY,  \* line 10
  req,          \* the request: method, Authorization header, raw q and num
  pc,           \* where the handler is: recv, serp, fetch, sleep, done
  num,          \* line 91 (undefined while not computed)
  serpOutcome,  \* how the search call settled: none, ok, status, network, timeout
  serpBody,     \* the search response as received (NoBody before)
  top,          \* lines 119-126
  idx,          \* position of the for-of loop in top (line 138)
  results,      \* line 137
  responses,    \* every response sent on res, in order
  calls,        \* every outbound fetch started, in order
  inflight,     \* outbound fetches started and not yet settled
  deadline,     \* when the timer of fetchWithTimeout aborts the call
  wake,         \* when the timer of sleep(500) fires
  now,          \* the wall clock, in milliseconds
  fetchOutcome, \* how the latest page fetch settled
  html,         \* the document the latest page fetch delivered
  extracted     \* what the latest extractHeadings call returned

vars == << API_TOKEN, SERPAPI_KEY, req, pc, num, serpOutcome, serpBody, top, idx, results,
           responses, calls, inflight, deadline, wake, now, fetchOutcome,
           html, extracted >>

(* -------------------------- search API responses ----------------------- *)
Marker == <<"n", "o", "t", "e", ".", "c", "o", "m", "/">>
Suffix == <<" ", "s", "i", "t", "e", ":", "n", "o", "t", "e", ".", "c", "o", "m">>
UrlX == <<"n", "o", "t", "e", ".", "c", "o", "/", "x">>

\* entries of organic_results.  The i-th entry of a list is either on the
\* target domain, with a link of its own, or elsewhere; entries at even
\* positions carry no title
NoteUrl(i) == (IF i % 2 = 0 THEN <<"w", ".">> ELSE <<>>) \o Marker \o NatToString(i)
NoteEntry(i) ==
  [isNull |-> FALSE, link |-> JSStr(NoteUrl(i)),
   title |-> IF i % 2 = 0 THEN JSUndef ELSE JSStr(<<"T">> \o NatToString(i))]
EntryX == [isNull |-> FALSE, link |-> JSStr(UrlX), title |-> JSStr(<<"X">>)]
\* an entry whose link is not a string, and a null entry
EntryN == [isNull |-> FALSE, link |-> JSNum(5), title |-> JSStr(<<"N">>)]
EntryNull == [isNull |-> TRUE, link |-> JSUndef, title |-> JSUndef]

OrganicLists ==
  { [i \in 1..n |-> IF i \in S THEN NoteEntry(i) ELSE EntryX] :
      n \in 0..MaxOrganic, S \in SUBSET (1..MaxOrganic) }
  \cup { <<EntryNull, NoteEntry(1)>>, <<EntryN>>,
         <<NoteEntry(2), EntryN, NoteEntry(1)>>, <<NoteEntry(1), NoteEntry(1)>> }

NoBody == [k |-> "none", isArray |-> FALSE, organic |-> <<>>]
\* bodies of a 2xx search response: not JSON, the JSON value null, an object
\* without organic_results, one whose organic_results is no array, and
\* objects with an organic_results array
SerpBodies ==
  { [k |-> "unparsable", isArray |-> FALSE, organic |-> <<>>],
    [k |-> "null", isArray |-> FALSE, organic |-> <<>>],
    [k |-> "object", isArray |-> FALSE, organic |-> <<>>],
    [k |-> "object", isArray |-> FALSE, organic |-> <<NoteEntry(1)>>] }
  \cup { [k |-> "object", isArray |-> TRUE, organic |-> o] : o \in OrganicLists }

\* bodies of a non-2xx search response; "unreadable" makes text() reject
ErrorBodies == { [readable |-> TRUE, text |-> Rep("e", 2)],
                 [readable |-> FALSE, text |-> <<>>] }
ErrorStatuses == {429}

(* ---------------------------- request parsing -------------------------- *)
\* routeQuery without the trim()
routeQuery_noTrim(r) == JSString(OrElse(r.q, JSStr(<<>>)))

\* String(req.query?.q || "").trim() and String(req.body?.query || "").trim()
routeQuery(r) == Trim(JSString(OrElse(r.q, JSStr(<<>>))))

\* Number(req.query?.num || 10) and Number(req.body?.num || 10)
routeNum(r) == ToNumber(OrElse(r.num, JSNum(DefaultNum)))

\* requireAuth that looks at the scheme only
requireAuth_schemeOnly(token, authorization) ==
  IF token = <<>> THEN TRUE
  ELSE StartsWith(JSString(OrElse(authorization, JSStr(<<>>))), Bearer_)

requireAuth(token, authorization) ==
  IF token = <<>> THEN TRUE
  ELSE LET auth == JSString(OrElse(authorization, JSStr(<<>>)))
           t == IF StartsWith(auth, Bearer_)
                THEN Trim(SliceFrom(auth, BearerLen)) ELSE <<>>
       IN  t = token

\* Math.min(Math.max(Number.isFinite(numRaw) ? numRaw : 10, 1), 10)
clampNum(numRaw) ==
  LET v == IF numRaw.t = "number" THEN numRaw ELSE JSNum(DefaultNum)
      lo == IF v.n > MinNum \/ (v.n = MinNum /\ v.h = 1) THEN v ELSE JSNum(MinNum)
  IN  IF lo.n < MaxNum THEN lo ELSE JSNum(MaxNum)

serpQueryOf(query) == query \o Suffix

\* typeof r?.link === "string" && r.link.includes("note.com/")
keepEntry(r) == ~r.isNull /\ r.link.t = "string" /\ Includes(r.link.s, Marker)

\* filterTop with rank taken from the position in the search results
filterTop_originalRank(organic, n) ==
  LET at == SliceTo(SelectSeq([i \in 1..Len(organic) |-> i],
                              LAMBDA i : keepEntry(organic[i])), ToInteger(n))
  IN  [i \in 1..Len(at) |->
         [rank |-> at[i],
          url |-> organic[at[i]].link.s,
          serp_title |-> IF organic[at[i]].title.t = "string"
                         THEN organic[at[i]].title.s ELSE <<>>]]

\* organic.filter(...).slice(0, num).map(...)
filterTop(organic, n) ==
  LET kept == SliceTo(SelectSeq(organic, keepEntry), ToInteger(n))
  IN  [i \in 1..Len(kept) |->
         [rank |-> i,
          url |-> kept[i].link.s,
          serp_title |-> IF kept[i].title.t = "string" THEN kept[i].title.s ELSE <<>>]]

\* serpResp.json().catch(() => ({}))
parseOrEmpty(body) ==
  IF body.k = "unparsable" THEN [k |-> "object", isArray |-> FALSE, organic |-> <<>>]
  ELSE body

\* Array.isArray(serpJson.organic_results) ? serpJson.organic_results : []
organicOf(json) == IF json.isArray THEN json.organic ELSE <<>>

(* ----------------------------- page extraction ------------------------- *)
EmptyExtract == [page_title |-> <<>>, h1 |-> <<>>, h2 |-> <<>>, h3 |-> <<>>]
NoPage == [title |-> <<>>, h1 |-> <<>>, h2 |-> <<>>, h3 |-> <<>>]

\* $(sel).first().text() || ""
firstText(texts) == IF texts = <<>> THEN <<>> ELSE texts[1]

\* $(el).text().replace(/\s+/g, " ").trim()
normalize(t) == Trim(CollapseWS(t))

\* the each() loops of lines 187-197
collect(texts) ==
  SelectSeq([i \in 1..Len(texts) |-> normalize(texts[i])], LAMBDA t : t # <<>>)

\* capList without the cut of each item
capList_itemsUncut(items, n) == SliceTo(items, n)

\* x.slice(0, n).map((x) => x.slice(0, 200))
capList(items, n) ==
  LET cut == SliceTo(items, n)
  IN  [i \in 1..Len(cut) |-> SliceTo(cut[i], TextCap)]

\* lines 184-205, on the parsed document: a page is the text() of its
\* title, h1, h2 and h3 elements, in document order
extractPage(page) ==
  [page_title |-> SliceTo(Trim(firstText(page.title)), TextCap),
   h1 |-> SliceTo(normalize(firstText(page.h1)), TextCap),
   h2 |-> capList(collect(page.h2), H2Cap),
   h3 |-> capList(collect(page.h3), H3Cap)]

\* extractHeadings: the fetch and everything after it are inside the try
FetchFailures == {"timeout", "network", "status", "body"}
extractHeadings(outcome, page) ==
  IF outcome = "ok" THEN extractPage(page) ELSE EmptyExtract

(* --------------------------------- clock ------------------------------- *)
Pad(k, w) == LET d == NatToString(k) IN Rep("0", w - Len(d)) \o d

\* new Date(ms).toISOString(), from the minutes on: "mm:ss.sssZ"
toISOString(ms) ==
  Pad((ms \div 60000) % 60, 2) \o <<":">> \o Pad((ms \div 1000) % 60, 2)
    \o <<".">> \o Pad(ms % 1000, 3) \o <<"Z">>

(* --------------------------------- pages ------------------------------- *)
\* documents the page fetches of a whole request deliver
SmallPages ==
  { [title |-> << <<" ", "T", " ">> >>,
     h1 |-> << <<"H", " ", "\n", "1">>, <<"z">> >>,
     h2 |-> << <<" ">>, <<"x", "\t", "y">> >>,
     h3 |-> <<>>],
    [title |-> << <<"a", " ", " ", "b">> >>, h1 |-> <<>>, h2 |-> <<>>, h3 |-> << <<"c">> >>] }

\* texts for a title or an h1: short ones with white space, and ones that
\* reach and pass the cap of 200 characters
Long(n) == Rep("a", n)
Texts ==
  { <<>>, <<" ", "\n">>, <<" ", "a", "\t", "\n", "b", " ">>,
    Long(TextCap - 1), Long(TextCap), Long(TextCap + Over),
    <<"\n">> \o Long(TextCap) \o <<" ", " ", "b">>,
    Long(TextCap - 1) \o <<" ", "\n", "b">> }

\* heading lists of n elements: numbered, with blank elements and white
\* space, and longer than the cap
Heading(style, i) ==
  CASE style = "short" -> <<"h">> \o NatToString(i)
    [] style = "gaps" ->
         IF i % 3 = 0 THEN <<" ", "\n">>
         ELSE <<" ", "g", "\t", " ">> \o NatToString(i) \o <<"\n">>
    [] style = "long" -> NatToString(i) \o Long(TextCap + Over)
Styles == {"short", "gaps", "long"}
HList(style, n) == [i \in 1..n |-> Heading(style, i)]
H2Lists == { HList(st, n) : st \in Styles, n \in {0, 1, H2Cap, H2Cap + Over, 2 * H2Cap} }
H3Lists == { HList(st, n) : st \in Styles, n \in {0, H3Cap, H3Cap + Over, 2 * H3Cap} }

\* documents for one call of extractHeadings
BigPages ==
  { [title |-> <<t>>, h1 |-> <<u, t>>, h2 |-> <<>>, h3 |-> <<>>] : t \in Texts, u \in Texts }
  \cup
  { [title |-> << <<" ">> \o Long(TextCap + Over), <<"u">> >>,
     h1 |-> << Long(TextCap) \o <<"\n", " ", "b">> >>, h2 |-> a, h3 |-> b] :
      a \in H2Lists, b \in H3Lists }

(* -------------------------------- Init --------------------------------- *)
Init ==
  /\ API_TOKEN \in Tokens
  /\ SERPAPI_KEY \in Keys
  /\ req \in Requests
  /\ pc = "recv"
  /\ num = JSUndef
  /\ serpOutcome = "none"
  /\ serpBody = NoBody
  /\ top = <<>>
  /\ idx = 0
  /\ results = <<>>
  /\ responses = <<>>
  /\ calls = <<>>
  /\ inflight = 0
  /\ deadline = 0
  /\ wake = 0
  /\ now = 0
  /\ fetchOutcome = "none"
  /\ html = NoPage
  /\ extracted = EmptyExtract

(* ------------------------------- actions ------------------------------- *)
\* an outbound fetch: what it asks for and when it starts
SearchCall(query, n, t) ==
  [kind |-> "search", target |-> serpQueryOf(query), num |-> JSString(n),
   rank |-> 0, at |-> t]
PageCall(item, t) ==
  [kind |-> "page", target |-> item.url, num |-> <<>>, rank |-> item.rank, at |-> t]

Respond(status, body) == responses' = Append(responses, [status |-> status, body |-> body])

\* the route handler and handleNoteTopOutline up to its first await
Handle ==
  /\ pc = "recv"
  /\ LET query == routeQuery(req)
         numRaw == routeNum(req)
     IN  IF ~requireAuth(API_TOKEN, req.authorization)
         THEN /\ Respond(401, [error |-> "Unauthorized"])
              /\ pc' = "done"
              /\ UNCHANGED << num, calls, inflight, deadline >>
         ELSE IF SERPAPI_KEY = <<>>
         THEN /\ Respond(500, [error |-> "SERPAPI_KEY is missing"])
              /\ pc' = "done"
              /\ UNCHANGED << num, calls, inflight, deadline >>
         ELSE IF query = <<>>
         THEN /\ Respond(400, [error |-> "query is required"])
              /\ pc' = "done"
              /\ num' = clampNum(numRaw)
              /\ UNCHANGED << calls, inflight, deadline >>
         ELSE /\ num' = clampNum(numRaw)
              /\ calls' = Append(calls, SearchCall(query, num', now))
              /\ inflight' = inflight + 1
              /\ deadline' = now + SerpTimeoutMs
              /\ pc' = "serp"
              /\ UNCHANGED responses
  /\ UNCHANGED << API_TOKEN, SERPAPI_KEY, req, serpOutcome, serpBody, top, idx,
                  results, wake, now, fetchOutcome, html, extracted >>

\* the search call answers with a non-2xx status (lines 107-114)
SerpNotOk(status, body) ==
  /\ pc = "serp"
  /\ now + Latency < deadline
  /\ now' = now + Latency
  /\ inflight' = inflight - 1
  /\ serpOutcome' = "status"
  /\ Respond(502, [error |-> "SERP API failed", status |-> status,
                   detail |-> SliceTo(IF body.readable THEN body.text ELSE <<>>,
                                      DetailCap)])
  /\ pc' = "done"
  /\ UNCHANGED << API_TOKEN, SERPAPI_KEY, req, num, serpBody, top, idx, results,
                  calls, deadline, wake, fetchOutcome, html, extracted >>

\* a handler that swallows a rejected search call as extractHeadings swallows
\* a rejected page fetch, and answers as if nothing had been found
SerpThrows_swallowed(why) ==
  /\ pc = "serp"
  /\ IF why = "timeout" THEN now' = deadline
     ELSE now + Latency < deadline /\ now' = now + Latency
  /\ inflight' = inflight - 1
  /\ serpOutcome' = why
  /\ Respond(200, [query |-> calls[1].target, results |-> <<>>,
                   note |-> "No note.com results found in top organic results."])
  /\ pc' = "done"
  /\ UNCHANGED << API_TOKEN, SERPAPI_KEY, req, num, serpBody, top, idx, results,
                  calls, deadline, wake, fetchOutcome, html, extracted >>

\* the search call rejects: a network error, or the abort of the 20 s timer;
\* the rejection reaches the catch of lines 154-159
SerpThrows(why) ==
  /\ pc = "serp"
  /\ IF why = "timeout" THEN now' = deadline
     ELSE now + Latency < deadline /\ now' = now + Latency
  /\ inflight' = inflight - 1
  /\ serpOutcome' = why
  /\ Respond(500, [error |-> "Internal error",
                   detail |-> IF why = "timeout" THEN "This operation was aborted"
                              ELSE "fetch failed"])
  /\ pc' = "done"
  /\ UNCHANGED << API_TOKEN, SERPAPI_KEY, req, num, serpBody, top, idx, results,
                  calls, deadline, wake, fetchOutcome, html, extracted >>

\* the search call answers 2xx (lines 116-139, up to the first page fetch)
SerpOk(body) ==
  /\ pc = "serp"
  /\ now + Latency < deadline
  /\ now' = now + Latency
  /\ serpOutcome' = "ok"
  /\ serpBody' = body
  /\ LET serpJson == parseOrEmpty(body)
         t == filterTop(organicOf(serpJson), num)
     IN  IF serpJson.k = "null"
         THEN \* serpJson.organic_results throws a TypeError
              /\ Respond(500, [error |-> "Internal error",
                               detail |-> "Cannot read properties of null"])
              /\ pc' = "done"
              /\ inflight' = inflight - 1
              /\ UNCHANGED << top, idx, calls, deadline >>
         ELSE IF Len(t) = 0
         THEN /\ Respond(200, [query |-> calls[1].target, results |-> <<>>,
                               note |-> "No note.com results found in top organic results."])
              /\ pc' = "done"
              /\ top' = t
              /\ inflight' = inflight - 1
              /\ UNCHANGED << idx, calls, deadline >>
         ELSE /\ top' = t
              /\ idx' = 1
              /\ calls' = Append(calls, PageCall(t[1], now'))
              /\ inflight' = inflight - 1 + 1
              /\ deadline' = now' + PageTimeoutMs
              /\ pc' = "fetch"
              /\ UNCHANGED responses
  /\ UNCHANGED << API_TOKEN, SERPAPI_KEY, req, num, results, wake,
                  fetchOutcome, html, extracted >>

\* extractHeadings without its try/catch: a failed fetch rejects, and the
\* rejection reaches the catch of the handler
PageSettles_noCatch(outcome, page) ==
  /\ pc = "fetch"
  /\ IF outcome = "timeout" THEN now' = deadline
     ELSE now + Latency < deadline /\ now' = now + Latency
  /\ inflight' = inflight - 1
  /\ fetchOutcome' = outcome
  /\ html' = page
  /\ IF outcome \in {"timeout", "network", "body"}
     THEN /\ Respond(500, [error |-> "Internal error", detail |-> "fetch failed"])
          /\ pc' = "done"
          /\ UNCHANGED << extracted, results, wake >>
     ELSE /\ extracted' = extractHeadings(outcome, page)
          /\ results' = Append(results,
               [rank |-> top[idx].rank,
                url |-> top[idx].url,
                serp_title |-> top[idx].serp_title,
                page_title |-> extracted'.page_title,
                h1 |-> extracted'.h1,
                h2 |-> extracted'.h2,
                h3 |-> extracted'.h3,
                fetched_at |-> toISOString(now')])
          /\ wake' = now' + SleepMs
          /\ pc' = "sleep"
          /\ UNCHANGED responses
  /\ UNCHANGED << API_TOKEN, SERPAPI_KEY, req, num, serpOutcome, serpBody, top,
                  idx, calls, deadline >>

\* extractHeadings(item.url) settles; lines 139-150 up to the await of sleep
PageSettles(outcome, page) ==
  /\ pc = "fetch"
  /\ IF outcome = "timeout" THEN now' = deadline
     ELSE now + Latency < deadline /\ now' = now + Latency
  /\ inflight' = inflight - 1
  /\ fetchOutcome' = outcome
  /\ html' = page
  /\ extracted' = extractHeadings(outcome, page)
  /\ results' = Append(results,
       [rank |-> top[idx].rank,
        url |-> top[idx].url,
        serp_title |-> top[idx].serp_title,
        page_title |-> extracted'.page_title,
        h1 |-> extracted'.h1,
        h2 |-> extracted'.h2,
        h3 |-> extracted'.h3,
        fetched_at |-> toISOString(now')])
  /\ wake' = now' + SleepMs
  /\ pc' = "sleep"
  /\ UNCHANGED << API_TOKEN, SERPAPI_KEY, req, num, serpOutcome, serpBody, top,
                  idx, responses, calls, deadline >>

PageOk == \E page \in SmallPages : PageSettles("ok", page)
PageFails == \E why \in FetchFailures : PageSettles(why, NoPage)

\* the loop without its delay: the next fetch starts at once
SleepDone_noDelay ==
  /\ pc = "sleep"
  /\ now' = now
  /\ IF idx < Len(top)
     THEN /\ idx' = idx + 1
          /\ calls' = Append(calls, PageCall(top[idx + 1], now'))
          /\ inflight' = inflight + 1
          /\ deadline' = now' + PageTimeoutMs
          /\ pc' = "fetch"
          /\ UNCHANGED responses
     ELSE /\ Respond(200, [query |-> calls[1].target, results |-> results])
          /\ pc' = "done"
          /\ UNCHANGED << idx, calls, inflight, deadline >>
  /\ UNCHANGED << API_TOKEN, SERPAPI_KEY, req, num, serpOutcome, serpBody, top,
                  results, wake, fetchOutcome, html, extracted >>

\* sleep(500) resolves: the loop goes on to the next item, or line 153
SleepDone ==
  /\ pc = "sleep"
  /\ now' = wake
  /\ IF idx < Len(top)
     THEN /\ idx' = idx + 1
          /\ calls' = Append(calls, PageCall(top[idx + 1], now'))
          /\ inflight' = inflight + 1
          /\ deadline' = now' + PageTimeoutMs
          /\ pc' = "fetch"
          /\ UNCHANGED responses
     ELSE /\ Respond(200, [query |-> calls[1].target, results |-> results])
          /\ pc' = "done"
          /\ UNCHANGED << idx, calls, inflight, deadline >>
  /\ UNCHANGED << API_TOKEN, SERPAPI_KEY, req, num, serpOutcome, serpBody, top,
                  results, wake, fetchOutcome, html, extracted >>

Next ==
  \/ Handle
  \/ \E st \in ErrorStatuses, b \in ErrorBodies : SerpNotOk(st, b)
  \/ \E why \in {"timeout", "network"} : SerpThrows(why)
  \/ \E body \in SerpBodies : SerpOk(body)
  \/ PageOk
  \/ PageFails
  \/ SleepDone

Spec == Init /\ [][Next]_vars

(* ------------------ one call of extractHeadings, at large -------------- *)
\* The state a request is in while its first page fetch is in flight (a POST
\* of {query: "a"}, no token configured, one search result on the target
\* domain), from which the fetch delivers the documents of BigPages.
OneNoteBody == [k |-> "object", isArray |-> TRUE, organic |-> <<NoteEntry(1)>>]
InitExtract ==
  /\ API_TOKEN = <<>>
  /\ SERPAPI_KEY = Key
  /\ req = [method |-> "POST", authorization |-> JSUndef, q |-> JSStr(<<"a">>),
            num |-> JSUndef]
  /\ pc = "fetch"
  /\ num = clampNum(routeNum(req))
  /\ serpOutcome = "ok"
  /\ serpBody = OneNoteBody
  /\ top = filterTop(organicOf(parseOrEmpty(serpBody)), num)
  /\ idx = 1
  /\ results = <<>>
  /\ responses = <<>>
  /\ calls = << SearchCall(routeQuery(req), num, 0), PageCall(top[1], Latency) >>
  /\ inflight = 1
  /\ now = Latency
  /\ deadline = now + PageTimeoutMs
  /\ wake = 0
  /\ fetchOutcome = "none"
  /\ html = NoPage
  /\ extracted = EmptyExtract

PageOkBig == \E page \in BigPages : PageSettles("ok", page)

NextExtract ==
  \/ PageOkBig
  \/ PageFails
  \/ SleepDone

SpecExtract == InitExtract /\ [][NextExtract]_vars

(* ================================ claims =============================== *)
\* the header is "Bearer ", then the token, with nothing but white space
\* around the token
CarriesToken(h, tok) ==
  /\ h.t = "string"
  /\ StartsWith(h.s, Bearer_)
  /\ \E i, j \in (BearerLen + 1)..Len(h.s) :
       /\ SubSeq(h.s, i, j) = tok
       /\ \A m \in ((BearerLen + 1)..(i - 1)) \cup ((j + 1)..Len(h.s)) : h.s[m] \in WS

Authenticated == API_TOKEN = <<>> \/ CarriesToken(req.authorization, API_TOKEN)

\* the query is absent, empty or white space only
BlankQuery == req.q.t # "string" \/ \A i \in 1..Len(req.q.s) : req.q.s[i] \in WS

Handled == pc # "recv"

\* C1: when a token is configured and the Authorization header is missing or
\* carries another token, the only response is 401 {error:"Unauthorized"} and
\* the handler does nothing else: no outbound call is ever started, whatever
\* the query, num and search key are.
C1_Unauthorized ==
  (Handled /\ ~Authenticated) =>
     /\ responses = << [status |-> 401, body |-> [error |-> "Unauthorized"]] >>
     /\ calls = <<>>
     /\ inflight = 0
     /\ pc = "done"
     /\ results = <<>>

C1_Witness ==
  /\ Handled
  /\ API_TOKEN = Tok
  /\ req.authorization = JSStr(Bearer_ \o Bad)
  /\ SERPAPI_KEY = Key
  /\ req.q = JSStr(<<"a">>)
  /\ req.num = JSNum(3)

\* C2 as claimed: an authenticated request with an empty or white-space-only
\* query is answered 400 and starts no outbound call, in every configuration,
\* the one without a search key included.
C2_Original ==
  (Handled /\ Authenticated /\ BlankQuery) =>
     /\ Len(responses) = 1
     /\ responses[1].status = 400
     /\ calls = <<>>

\* C2 amended: such a request starts no outbound call and gets exactly one
\* response: 400 "query is required" when the search key is configured, and
\* 500 "SERPAPI_KEY is missing" when it is not (the key is checked first).
C2_BlankQuery ==
  (Handled /\ Authenticated /\ BlankQuery) =>
     /\ responses =
          << IF SERPAPI_KEY = <<>>
             THEN [status |-> 500, body |-> [error |-> "SERPAPI_KEY is missing"]]
             ELSE [status |-> 400, body |-> [error |-> "query is required"]] >>
     /\ calls = <<>>
     /\ inflight = 0
     /\ pc = "done"

C2_Witness ==
  /\ Handled
  /\ API_TOKEN = Tok
  /\ Authenticated
  /\ req.q = JSStr(<<"\t", " ">>)
  /\ SERPAPI_KEY = Key
  /\ responses[1].status = 400

SearchFailed == serpOutcome \in {"status", "network", "timeout"}
NoPageFetch == \A i \in 1..Len(calls) : calls[i].kind # "page"

\* C3 as claimed: whenever the search call fails (non-2xx status, network
\* error, or abort by the 20 s timer) the response is 502 with an error
\* field, the request is over and no page is fetched.
C3_Original ==
  SearchFailed =>
     /\ Len(responses) = 1
     /\ responses[1].status = 502
     /\ "error" \in DOMAIN responses[1].body
     /\ pc = "done"
     /\ NoPageFetch

\* C3 amended: whenever the search call fails, the request is over with
\* exactly one response, whose body has an error field, and no page is
\* fetched; the status is 502 ("SERP API failed") when the search API answered
\* with a non-2xx status, and 500 ("Internal error") when the call failed at
\* the network level or was aborted by the 20 s timer.
C3_SearchFailure ==
  SearchFailed =>
     /\ Len(responses) = 1
     /\ "error" \in DOMAIN responses[1].body
     /\ IF serpOutcome = "status"
        THEN /\ responses[1].status = 502
             /\ responses[1].body.error = "SERP API failed"
        ELSE /\ responses[1].status = 500
             /\ responses[1].body.error = "Internal error"
     /\ pc = "done"
     /\ NoPageFetch
     /\ inflight = 0
     /\ results = <<>>

C3_Witness ==
  /\ serpOutcome = "timeout"
  /\ now = SerpTimeoutMs
  /\ pc = "done"
  /\ Len(calls) = 1

\* a raw num that denotes a number: a JSON number, or a query-string value
\* that reads as one
IsNumeric(v) ==
  \/ v.t = "number"
  \/ v.t = "string" /\ Trim(v.s) # <<>> /\ ToNumber(v).t = "number"
\* twice the number a value denotes
Twice(v) == 2 * ToNumber(v).n + ToNumber(v).h
\* twice the number clamped into [1,10]
TwiceClamped(v) ==
  IF Twice(v) < 2 * 1 THEN 2 * 1 ELSE IF Twice(v) > 2 * 10 THEN 2 * 10 ELSE Twice(v)

\* an organic entry whose link is a string containing the marker
OnTarget(e) == ~e.isNull /\ e.link.t = "string" /\ Includes(e.link.s, Marker)
\* the organic entries of the search response (none without an array)
Organic == IF serpBody.k = "object" /\ serpBody.isArray THEN serpBody.organic ELSE <<>>
Surviving == { j \in 1..Len(Organic) : OnTarget(Organic[j]) }
\* the position in Organic of the i-th surviving entry
NthSurviving(i) ==
  CHOOSE j \in Surviving : Cardinality({ m \in Surviving : m <= j }) = i
MinNat(a, b) == IF a < b THEN a ELSE b

\* C4: for every numeric num, from the GET query string or the POST body, the
\* count used in the search call and for cutting the filtered list is num
\* clamped into [1,10]: below 1 (0 and negatives included) gives 1, above 10
\* gives 10, inside [1,10] is unchanged.
C4_Clamp ==
  (calls # <<>> /\ IsNumeric(req.num)) =>
     /\ num.t = "number"
     /\ Twice(num) = TwiceClamped(req.num)
     /\ IsNumeric(JSStr(calls[1].num))
     /\ Twice(JSStr(calls[1].num)) = TwiceClamped(req.num)
     /\ (serpOutcome = "ok" /\ serpBody.k # "null") =>
          /\ 2 * Len(top) <= TwiceClamped(req.num)
          /\ \/ Len(top) = Cardinality(Surviving)
             \/ 2 * (Len(top) + 1) > TwiceClamped(req.num)

\* C5: after a 2xx search response without any organic entry on the target
\* domain (no organic_results array and an unparsable body included), the
\* response is 200 with results = [] and a non-empty note, and no page is
\* fetched.
C5_NoMatch ==
  (serpOutcome = "ok" /\ Surviving = {}) =>
     /\ Len(responses) = 1
     /\ responses[1].status = 200
     /\ DOMAIN responses[1].body = {"query", "results", "note"}
     /\ responses[1].body.results = <<>>
     /\ responses[1].body.note # ""
     /\ NoPageFetch

\* a <= b for two timestamps of the same format (fixed width, most
\* significant field first): the order of strings
LexLeq(a, b) ==
  \/ a = b
  \/ \E i \in 1..Len(a) :
       /\ SubSeq(a, 1, i - 1) = SubSeq(b, 1, i - 1)
       /\ IsDigit(a[i]) /\ IsDigit(b[i])
       /\ DigitVal(a[i]) < DigitVal(b[i])

\* C6 as claimed: with M organic entries on the target domain and the
\* effective count num, a success response carries exactly N = min(num, M)
\* results; the i-th has the url of the i-th surviving entry, in search order,
\* and rank i; fetched_at never decreases along the array.
C6_Original ==
  \A k \in 1..Len(responses) :
    responses[k].status = 200 =>
      LET r == responses[k].body.results
      IN  /\ 2 * Len(r) = MinNat(Twice(num), 2 * Cardinality(Surviving))
          /\ \A i \in 1..Len(r) :
               /\ r[i].rank = i
               /\ r[i].url = Organic[NthSurviving(i)].link.s
          /\ \A i \in 1..(Len(r) - 1) : LexLeq(r[i].fetched_at, r[i + 1].fetched_at)

\* C6 amended: with M organic entries on the target domain and the effective
\* count num, a success response carries exactly N = min(floor(num), M)
\* results (min(num, M) when num is an integer); the i-th has the url of the
\* i-th surviving entry, in search order, and rank i (the position after
\* filtering); fetched_at never decreases along the array; a request whose
\* search found an entry on the target domain ends in no other response,
\* however its page fetches go.
C6_Results ==
  /\ \A k \in 1..Len(responses) :
       responses[k].status = 200 =>
         LET r == responses[k].body.results
             N == MinNat(Twice(num) \div 2, Cardinality(Surviving))
         IN  /\ Len(r) = N
             /\ \A i \in 1..N :
                  /\ r[i].rank = i
                  /\ r[i].url = Organic[NthSurviving(i)].link.s
             /\ \A i \in 1..(N - 1) : LexLeq(r[i].fetched_at, r[i + 1].fetched_at)
  /\ (pc = "done" /\ serpOutcome = "ok" /\ Surviving # {}) =>
       (Len(responses) = 1 /\ responses[1].status = 200)

\* one result where the search had two on the target domain, behind an
\* entry from elsewhere
C6_Witness ==
  /\ pc = "done"
  /\ num = JSNum(1)
  /\ Len(Organic) = 3
  /\ Surviving = {2, 3}
  /\ Len(responses) = 1
  /\ responses[1].status = 200
  /\ Len(responses[1].body.results) = 1
  /\ fetchOutcome = "network"

AllEmpty(r) == r.page_title = <<>> /\ r.h1 = <<>> /\ r.h2 = <<>> /\ r.h3 = <<>>

\* C7: a page fetch that times out, fails at the network level, fails while
\* the body is read, or answers non-2xx makes extractHeadings return the
\* all-empty extract instead of raising; the entry pushed for it has
\* page_title "", h1 "", h2 [] and h3 [] and stays as pushed; no response is
\* sent at that point, the loop goes on to fetch the next entry, and when it
\* ends the response is the 200 one with an entry for every filtered result.
C7_Degrade ==
  [][ /\ (pc = "fetch" /\ pc' # "fetch" /\ fetchOutcome' \in FetchFailures) =>
           /\ extracted' = EmptyExtract
           /\ Len(results') = Len(results) + 1
           /\ AllEmpty(results'[Len(results')])
           /\ results'[Len(results')].rank = idx
           /\ results'[Len(results')].url = top[idx].url
           /\ pc' = "sleep"
           /\ responses' = responses
      /\ SubSeq(results', 1, Len(results)) = results
      /\ (pc = "sleep" /\ idx < Len(top)) =>
           /\ pc' = "fetch"
           /\ calls' = Append(calls, calls'[Len(calls')])
           /\ calls'[Len(calls')].kind = "page"
           /\ calls'[Len(calls')].target = top[idx + 1].url
      /\ (pc = "sleep" /\ idx >= Len(top)) =>
           /\ pc' = "done"
           /\ Len(results) = Len(top)
           /\ responses' = Append(responses,
                [status |-> 200, body |-> [query |-> calls[1].target, results |-> results]])
    ]_vars

\* a failed fetch for the first entry, a delivered page for the second
C7_Witness ==
  /\ pc = "done"
  /\ Len(responses) = 1
  /\ responses[1].status = 200
  /\ Len(responses[1].body.results) = 2
  /\ AllEmpty(responses[1].body.results[1])
  /\ ~AllEmpty(responses[1].body.results[2])

\* C9: the outbound calls of a request are sequential and never repeated: the
\* search call is the first call and the only one of its kind; the k-th page
\* fetch is the one for rank k, so each filtered entry is fetched once, failed
\* or not; a fetch starts only when the records of all earlier ranks are
\* stamped and 500 ms have passed since the latest stamp; never are two calls
\* in flight; a request that ends after the loop has fetched every entry.
C9_Sequential ==
  /\ inflight \in {0, 1}
  /\ inflight = 1 <=> pc \in {"serp", "fetch"}
  /\ \A i \in 1..Len(calls) :
       /\ calls[i].kind = "search" <=> i = 1
       /\ i > 1 =>
            /\ calls[i].kind = "page"
            /\ calls[i].rank = i - 1
            /\ i - 1 <= Len(top)
            /\ calls[i].target = top[i - 1].url
            /\ Len(results) >= i - 2
            /\ calls[i].at >= calls[i - 1].at
            /\ i > 2 =>
                 /\ calls[i].at >= SleepMs
                 /\ LexLeq(results[i - 2].fetched_at, toISOString(calls[i].at - SleepMs))
  /\ Len(results) <= Len(calls) - 1 \/ calls = <<>>
  /\ (pc = "done" /\ serpOutcome = "ok" /\ top # <<>>) => Len(calls) = 1 + Len(top)

C9_Witness ==
  /\ pc = "done"
  /\ Len(calls) = 4
  /\ AllEmpty(results[2])
  /\ ~AllEmpty(results[3])
  /\ Len(responses) = 1

\* x is y cut to 200 characters
CutOf(x, y) ==
  /\ Len(x) = MinNat(200, Len(y))
  /\ \A m \in 1..Len(x) : x[m] = y[m]

\* kept holds the first `cap` headings of raw that are not blank, in document
\* order, each normalized and cut to 200 characters
KeptFirst(raw, kept, cap) ==
  LET nb == { j \in 1..Len(raw) : \E m \in 1..Len(raw[j]) : raw[j][m] \notin WS }
      nth(i) == CHOOSE j \in nb : Cardinality({ m \in nb : m <= j }) = i
  IN  /\ Len(kept) = MinNat(cap, Cardinality(nb))
      /\ \A i \in 1..Len(kept) : CutOf(kept[i], normalize(raw[nth(i)]))

\* C8: every PageExtract extractHeadings returns keeps the caps: page_title
\* and h1 at most 200 characters, h2 at most 20 items, h3 at most 40, every
\* item at most 200 characters; the items kept are the first 20 (40) non-empty
\* headings in document order, each the prefix of its normalized text.
C8_Caps ==
  /\ Len(extracted.page_title) <= 200
  /\ Len(extracted.h1) <= 200
  /\ Len(extracted.h2) <= 20
  /\ Len(extracted.h3) <= 40
  /\ \A i \in 1..Len(extracted.h2) : Len(extracted.h2[i]) <= 200
  /\ \A i \in 1..Len(extracted.h3) : Len(extracted.h3[i]) <= 200
  /\ fetchOutcome = "ok" =>
       /\ KeptFirst(html.h2, extracted.h2, 20)
       /\ KeptFirst(html.h3, extracted.h3, 40)
  /\ results # <<>> =>
       LET r == results[Len(results)]
       IN  /\ r.page_title = extracted.page_title
           /\ r.h1 = extracted.h1
           /\ r.h2 = extracted.h2
           /\ r.h3 = extracted.h3

\* more headings than the caps, with blank ones among them, and longer than
\* 200 characters
C8_Witness ==
  /\ fetchOutcome = "ok"
  /\ Len(html.h2) > 20
  /\ Len(extracted.h2) = 20
  /\ Len(html.h2[1]) > 200
  /\ Len(extracted.h2[1]) = 200
  /\ Len(html.h3) > 40
  /\ Len(extracted.h3) = 40
  /\ \E j \in 1..40 : \A m \in 1..Len(html.h3[j]) : html.h3[j][m] \in WS
  /\ Len(html.title[1]) > 200
  /\ Len(extracted.page_title) = 200
  /\ Len(html.h1[1]) > 200
  /\ Len(extracted.h1) = 200

\* a text whose white space is single spaces between words; a space at the
\* end can only be what the cut at 200 characters left
Clean(x) ==
  /\ \A m \in 1..Len(x) : x[m] \in WS => x[m] = " "
  /\ \A m \in 1..(Len(x) - 1) : ~(x[m] = " " /\ x[m + 1] = " ")
  /\ x # <<>> => x[1] # " "
  /\ (x # <<>> /\ x[Len(x)] = " ") => Len(x) = 200

\* C10: of a fetched page, every text extractHeadings returns (page_title,
\* h1, every h2 and h3 item) is, before the cut, free of leading and trailing
\* white space, of runs of white space and of white space other than a space.
C10_Normalized ==
  fetchOutcome = "ok" =>
     /\ Clean(extracted.page_title)
     /\ Clean(extracted.h1)
     /\ \A i \in 1..Len(extracted.h2) : Clean(extracted.h2[i])
     /\ \A i \in 1..Len(extracted.h3) : Clean(extracted.h3[i])

====
